---- MODULE Spec2Model ----
(***************************************************************************)
(* lightdm: the XDMCP session seat (src/src/seat-xdmcp-session.c) and the  *)
(* greeter library's user record (src/liblightdm-gobject/user.c).          *)
(*                                                                         *)
(* Spec     : the seat, its session, the X server handles and displays.    *)
(* UserSpec : one LdmUser and the greeter it asks for its defaults.        *)
(***************************************************************************)
EXTENDS Integers, Sequences, FiniteSets, TLC

\* The C null pointer.
NULL == "NULL"

-----------------------------------------------------------------------------
(* Bounds of the model *)

\* X server handles (hence displays) created over one run.
MaxDisplays == 3
\* Requests sent to the greeter for a user's defaults over one run.
MaxRequests == 3

-----------------------------------------------------------------------------
(* The objects the seat is given: authorities and XDMCP sessions *)

\* The authorities negotiation has issued; A3 is malformed (no address).
XAuthorities == {"A1", "A2", "A3"}

\* The address each authority holds.
xauth_address == [a \in XAuthorities |->
    CASE a = "A1" -> "10.0.0.7"
      [] a = "A2" -> "10.0.0.8"
      [] a = "A3" -> NULL]

\* The sessions negotiation can hand over: S1 and S2 are valid, S3 has no
\* authority (none was negotiated), S4 carries the malformed authority.
XDMCPSessions == [
    S1 |-> [authority |-> "A1", display_number |-> 5, ref_count |-> 1],
    S2 |-> [authority |-> "A2", display_number |-> 7, ref_count |-> 1],
    S3 |-> [authority |-> NULL, display_number |-> 6, ref_count |-> 1],
    S4 |-> [authority |-> "A3", display_number |-> 8, ref_count |-> 1]]

SessionIds == DOMAIN XDMCPSessions

\* The sessions whose authority is present and well formed.
ValidSessions == {s \in SessionIds :
    /\ XDMCPSessions[s].authority # NULL
    /\ xauth_address[XDMCPSessions[s].authority] # NULL}

-----------------------------------------------------------------------------
(* State *)

VARIABLES
    sessions,       \* the XDMCPSession objects: id -> fields, reference count
    seat,           \* the SeatXDMCPSession: does it exist, and priv->session
    given,          \* the pointer seat_xdmcp_session_new was called with
    seat_state,     \* the lifecycle state of the seat
    pending,        \* a display is requested, add_display has not returned
    stop_requested, \* the seat has been asked to stop
    stopped_while_pending, \* ... and it was asked while a display was pending
    xservers,       \* every XServerRemote created so far, in creation order
    displays,       \* the displays the seat owns, in creation order
    crashed,        \* the process has died on a null pointer
    call,           \* the add_display call that has just returned, if any
    user,           \* the LdmUserPrivate fields
    named,          \* the name and real name last given to the setters
    greeter_requests, \* the ldm_greeter_get_user_defaults calls made so far
    user_call       \* the LdmUser function that has just returned, its result

seatVars == <<sessions, seat, given, seat_state, pending, stop_requested,
              stopped_while_pending, xservers, displays, crashed, call>>
userVars == <<user, named, greeter_requests, user_call>>
vars == <<seatVars, userVars>>

\* No add_display call has just returned.
NoCall == [op |-> "none", owned_before |-> 0, session |-> NULL,
           result |-> "none", xserver |-> 0]

-----------------------------------------------------------------------------
(* GObject reference counting *)

g_object_ref(object) == [object EXCEPT !.ref_count = @ + 1]

g_object_unref(object) == [object EXCEPT !.ref_count = @ - 1]

-----------------------------------------------------------------------------
(* The collaborators of the seat *)

\* The accessors return NULL (0 for a number) when they are handed NULL and
\* the build checks its arguments; an unchecked build dies instead (see
\* NullDereference).
xdmcp_session_get_authority(session) ==
    IF session = NULL THEN NULL ELSE sessions[session].authority

xdmcp_session_get_display_number(session) ==
    IF session = NULL THEN 0 ELSE sessions[session].display_number

xauth_get_address(authority) ==
    IF authority = NULL THEN NULL ELSE xauth_address[authority]

\* A new XServerRemote, held by its creator alone.
xserver_remote_new(address, display_number, authority) ==
    [address |-> address, display_number |-> display_number,
     authority |-> authority, ref_count |-> 1]

\* A new XDisplay around X server number `xserver`, not yet started.
xdisplay_new(xserver) == [xserver |-> xserver, status |-> "Stopped"]

\* The X server as xdisplay_new leaves it: the display holds a reference.
xdisplay_new_xserver(xserver) == g_object_ref(xserver)

-----------------------------------------------------------------------------
(* seat-xdmcp-session.c *)

\* seat_xdmcp_session_new stores whatever g_object_ref returns, and
\* g_object_ref returns NULL for NULL.
seat_xdmcp_session_new_priv(session) ==
    [exists |-> TRUE, session |-> session]

\* seat_xdmcp_session_add_display hands a null pointer to an accessor when
\* the seat has no session or the session has no authority.
NullDereference(session) ==
    \/ session = NULL
    \/ xdmcp_session_get_authority(session) = NULL

\* A faulty variant: the X server is built without the session's authority.
seat_xdmcp_session_add_display_no_authority(session) ==
    LET authority == xdmcp_session_get_authority(session)
        xserver == xserver_remote_new(xauth_get_address(authority),
                       xdmcp_session_get_display_number(session), NULL)
        display == xdisplay_new(Len(xservers) + 1)
    IN  [display |-> display,
         xserver |-> g_object_unref(xdisplay_new_xserver(xserver))]

\* A faulty variant: the local reference to the X server is never dropped.
seat_xdmcp_session_add_display_no_unref(session) ==
    LET authority == xdmcp_session_get_authority(session)
        xserver == xserver_remote_new(xauth_get_address(authority),
                       xdmcp_session_get_display_number(session), authority)
        display == xdisplay_new(Len(xservers) + 1)
    IN  [display |-> display, xserver |-> xdisplay_new_xserver(xserver)]

\* The display add_display returns and the X server it leaves behind.
seat_xdmcp_session_add_display(session) ==
    LET authority == xdmcp_session_get_authority(session)
        xserver == xserver_remote_new(xauth_get_address(authority),
                       xdmcp_session_get_display_number(session), authority)
        display == xdisplay_new(Len(xservers) + 1)
    IN  [display |-> display,
         xserver |-> g_object_unref(xdisplay_new_xserver(xserver))]

-----------------------------------------------------------------------------
(* Initial state: no seat and no user have been constructed yet *)

SeatInit ==
    /\ sessions = XDMCPSessions
    /\ seat = [exists |-> FALSE, session |-> NULL]
    /\ given = NULL
    /\ seat_state = "Idle"
    /\ pending = FALSE
    /\ stop_requested = FALSE
    /\ stopped_while_pending = FALSE
    /\ xservers = <<>>
    /\ displays = <<>>
    /\ crashed = FALSE
    /\ call = NoCall

\* g_object_new zero-fills the private structure.
ldm_user_init ==
    [exists |-> FALSE, name |-> NULL, real_name |-> NULL,
     home_directory |-> NULL, image |-> NULL, logged_in |-> FALSE,
     have_defaults |-> FALSE, language |-> NULL, layout |-> NULL,
     session |-> NULL]

NoUserCall == [op |-> "none", ret |-> NULL, asked |-> FALSE, ok |-> FALSE]

UserInit ==
    /\ user = ldm_user_init
    /\ named = [name |-> NULL, real_name |-> NULL]
    /\ greeter_requests = 0
    /\ user_call = NoUserCall

Init == SeatInit /\ UserInit

-----------------------------------------------------------------------------
(* The seat: construction and provisioning *)

\* seat_xdmcp_session_new (session): g_object_ref (NULL) returns NULL in a
\* build that checks its arguments and dies in one that does not.
seat_xdmcp_session_new(session, abort) ==
    /\ ~crashed
    /\ ~seat.exists
    /\ given' = session
    /\ IF session = NULL /\ abort
       THEN /\ crashed' = TRUE
            /\ UNCHANGED <<seat, sessions>>
       ELSE /\ seat' = seat_xdmcp_session_new_priv(session)
            /\ sessions' = IF session = NULL THEN sessions
                           ELSE [sessions EXCEPT ![session] = g_object_ref(@)]
            /\ UNCHANGED crashed
    /\ UNCHANGED <<userVars, seat_state, pending, stop_requested,
                   stopped_while_pending, xservers, displays, call>>

\* A faulty variant: a display that completes after the stop request is started.
seat_adopt_display_started(display) == [display EXCEPT !.status = "Starting"]

\* The seat adopts the display add_display returned: it is started, unless
\* the seat has been asked to stop, and then it stays stopped.
seat_adopt_display(display) ==
    IF stop_requested THEN [display EXCEPT !.status = "Stopped"]
    ELSE [display EXCEPT !.status = "Starting"]

\* The seat is started: it asks for its display.
seat_start ==
    /\ ~crashed
    /\ seat.exists
    /\ seat_state = "Idle"
    /\ seat_state' = "Starting"
    /\ pending' = TRUE
    /\ call' = NoCall
    /\ UNCHANGED <<userVars, sessions, seat, given, stop_requested,
                   stopped_while_pending, xservers, displays, crashed>>

\* The framework asks the seat for a display again.
seat_create_display ==
    /\ ~crashed
    /\ seat.exists
    /\ seat_state \in {"Starting", "Running"}
    /\ ~pending
    /\ Len(xservers) < MaxDisplays
    /\ pending' = TRUE
    /\ call' = NoCall
    /\ UNCHANGED <<userVars, sessions, seat, given, seat_state, stop_requested,
                   stopped_while_pending, xservers, displays, crashed>>

\* The pending request reaches the class's add_display and the seat adopts
\* what it returns.
seat_add_display(abort) ==
    /\ ~crashed
    /\ seat.exists
    /\ pending
    /\ IF NullDereference(seat.session) /\ abort
       THEN /\ crashed' = TRUE
            /\ call' = [op |-> "add_display", owned_before |-> Len(displays),
                        session |-> seat.session, result |-> "crash",
                        xserver |-> 0]
            /\ UNCHANGED <<pending, xservers, displays>>
       ELSE LET made == seat_xdmcp_session_add_display(seat.session)
            IN  /\ xservers' = Append(xservers, made.xserver)
                /\ displays' =
                       Append(displays, seat_adopt_display(made.display))
                /\ pending' = FALSE
                /\ call' = [op |-> "add_display",
                            owned_before |-> Len(displays),
                            session |-> seat.session, result |-> "Display",
                            xserver |-> made.display.xserver]
                /\ UNCHANGED crashed
    /\ UNCHANGED <<userVars, sessions, seat, given, seat_state, stop_requested,
                   stopped_while_pending>>

-----------------------------------------------------------------------------
(* The seat and its displays: lifecycle *)

\* A display that was starting is running; a starting seat runs with it.
display_started(i) ==
    /\ ~crashed
    /\ i \in DOMAIN displays
    /\ displays[i].status = "Starting"
    /\ displays' = [displays EXCEPT ![i].status = "Running"]
    /\ seat_state' = IF seat_state = "Starting" THEN "Running" ELSE seat_state
    /\ call' = NoCall
    /\ UNCHANGED <<userVars, sessions, seat, given, pending, stop_requested,
                   stopped_while_pending, xservers, crashed>>

\* The remote end of a running display is lost: the display fails and tells
\* its seat.
display_failed(i) ==
    /\ ~crashed
    /\ i \in DOMAIN displays
    /\ displays[i].status = "Running"
    /\ displays' = [displays EXCEPT ![i].status = "Failed"]
    /\ seat_state' = IF seat_state \in {"Starting", "Running"} THEN "Failed"
                     ELSE seat_state
    /\ call' = NoCall
    /\ UNCHANGED <<userVars, sessions, seat, given, pending, stop_requested,
                   stopped_while_pending, xservers, crashed>>

\* stop () on a display.
display_stop(display) ==
    IF display.status \in {"Starting", "Running"}
    THEN [display EXCEPT !.status = "Stopping"]
    ELSE display

\* The seat is asked to stop: every display it owns is stopped.
seat_stop ==
    /\ ~crashed
    /\ seat.exists
    /\ seat_state \in {"Starting", "Running"}
    /\ seat_state' = "Stopping"
    /\ stop_requested' = TRUE
    /\ stopped_while_pending' = pending
    /\ displays' = [i \in DOMAIN displays |-> display_stop(displays[i])]
    /\ call' = NoCall
    /\ UNCHANGED <<userVars, sessions, seat, given, pending, xservers, crashed>>

\* The request that was pending when the seat was stopped is cancelled.
seat_cancel_display ==
    /\ ~crashed
    /\ pending
    /\ stop_requested
    /\ pending' = FALSE
    /\ call' = NoCall
    /\ UNCHANGED <<userVars, sessions, seat, given, seat_state, stop_requested,
                   stopped_while_pending, xservers, displays, crashed>>

\* A stopping display has stopped.
display_stopped(i) ==
    /\ ~crashed
    /\ i \in DOMAIN displays
    /\ displays[i].status = "Stopping"
    /\ displays' = [displays EXCEPT ![i].status = "Stopped"]
    /\ call' = NoCall
    /\ UNCHANGED <<userVars, sessions, seat, given, seat_state, pending,
                   stop_requested, stopped_while_pending, xservers, crashed>>

\* Every display of a stopping seat is at rest: the seat has stopped.
seat_stopped ==
    /\ ~crashed
    /\ seat_state = "Stopping"
    /\ ~pending
    /\ \A i \in DOMAIN displays : displays[i].status \in {"Stopped", "Failed"}
    /\ seat_state' = "Stopped"
    /\ call' = NoCall
    /\ UNCHANGED <<userVars, sessions, seat, given, pending, stop_requested,
                   stopped_while_pending, xservers, displays, crashed>>

\* `seq` without its i-th element.
RemoveAt(seq, i) == SubSeq(seq, 1, i - 1) \o SubSeq(seq, i + 1, Len(seq))

\* The seat releases a display that is at rest; the display drops its
\* reference to its X server.
seat_remove_display(i) ==
    /\ ~crashed
    /\ i \in DOMAIN displays
    /\ displays[i].status \in {"Stopped", "Failed"}
    /\ displays' = RemoveAt(displays, i)
    /\ xservers' = [xservers EXCEPT ![displays[i].xserver] = g_object_unref(@)]
    /\ call' = NoCall
    /\ UNCHANGED <<userVars, sessions, seat, given, seat_state, pending,
                   stop_requested, stopped_while_pending, crashed>>

Next ==
    \/ \E session \in SessionIds \cup {NULL}, abort \in BOOLEAN :
           seat_xdmcp_session_new(session, abort)
    \/ seat_start
    \/ seat_create_display
    \/ \E abort \in BOOLEAN : seat_add_display(abort)
    \/ \E i \in 1..MaxDisplays : display_started(i)
    \/ \E i \in 1..MaxDisplays : display_failed(i)
    \/ seat_stop
    \/ seat_cancel_display
    \/ \E i \in 1..MaxDisplays : display_stopped(i)
    \/ seat_stopped
    \/ \E i \in 1..MaxDisplays : seat_remove_display(i)

Spec == Init /\ [][Next]_vars

-----------------------------------------------------------------------------
(* user.c: the values a caller passes, and the greeter *)

UserNames == {NULL, "alice", "bob"}
\* A real name may be blank.
RealNames == {NULL, "", "Alice Liddell"}
HomeDirectories == {NULL, "/home/alice"}
Images == {NULL, "file:///home/alice/.face"}

\* The defaults the display manager holds for each user it knows.
GreeterDefaults == [
    alice |-> [language |-> "en_GB", layout |-> "gb", session |-> "gnome"],
    bob   |-> [language |-> "fr_FR", layout |-> "fr", session |-> "xfce"]]

\* A copy of the string; NULL for NULL.
g_strdup(str) == str

\* The greeter's answer to a request for `username`'s defaults: it fails when
\* the display manager cannot be reached or does not know the user, and
\* then it writes nothing.
ldm_greeter_get_user_defaults(username, reachable) ==
    IF reachable /\ username \in DOMAIN GreeterDefaults
    THEN [ok |-> TRUE, language |-> GreeterDefaults[username].language,
          layout |-> GreeterDefaults[username].layout,
          session |-> GreeterDefaults[username].session]
    ELSE [ok |-> FALSE, language |-> NULL, layout |-> NULL, session |-> NULL]

-----------------------------------------------------------------------------
(* user.c: the functions, on the private structure `priv` *)

ldm_user_get_name(priv) == priv.name

\* A faulty variant: a new name drops the defaults fetched for the old one.
ldm_user_set_name_invalidating(priv, name) ==
    [priv EXCEPT !.name = g_strdup(name),
                 !.have_defaults = (@ /\ name = priv.name)]

ldm_user_set_name(priv, name) == [priv EXCEPT !.name = g_strdup(name)]

ldm_user_get_real_name(priv) == priv.real_name

ldm_user_set_real_name(priv, real_name) ==
    [priv EXCEPT !.real_name = g_strdup(real_name)]

\* A faulty variant: the real name is never looked at.
ldm_user_get_display_name_no_real_name(priv) == priv.name

ldm_user_get_display_name(priv) ==
    IF priv.real_name # NULL THEN priv.real_name ELSE priv.name

ldm_user_get_home_directory(priv) == priv.home_directory

ldm_user_set_home_directory(priv, home_directory) ==
    [priv EXCEPT !.home_directory = g_strdup(home_directory)]

ldm_user_get_image(priv) == priv.image

ldm_user_set_image(priv, image) == [priv EXCEPT !.image = g_strdup(image)]

ldm_user_get_logged_in(priv) == priv.logged_in

ldm_user_set_logged_in(priv, logged_in) ==
    [priv EXCEPT !.logged_in = logged_in]

\* A faulty variant: have_defaults is set whatever the greeter answered.
get_defaults_ignoring_result(priv, requests, reachable) ==
    IF priv.have_defaults
    THEN [priv |-> priv, requests |-> requests, asked |-> FALSE, ok |-> FALSE]
    ELSE LET got == ldm_greeter_get_user_defaults(priv.name, reachable)
         IN  [priv |-> IF got.ok
                       THEN [priv EXCEPT !.language = got.language,
                                         !.layout = got.layout,
                                         !.session = got.session,
                                         !.have_defaults = TRUE]
                       ELSE [priv EXCEPT !.have_defaults = TRUE],
              requests |-> requests + 1, asked |-> TRUE, ok |-> got.ok]

\* get_defaults: the private structure and the count of greeter requests it
\* leaves, whether it asked the greeter, and what the greeter answered.
get_defaults(priv, requests, reachable) ==
    IF priv.have_defaults
    THEN [priv |-> priv, requests |-> requests, asked |-> FALSE, ok |-> FALSE]
    ELSE LET got == ldm_greeter_get_user_defaults(priv.name, reachable)
         IN  [priv |-> IF got.ok
                       THEN [priv EXCEPT !.language = got.language,
                                         !.layout = got.layout,
                                         !.session = got.session,
                                         !.have_defaults = TRUE]
                       ELSE priv,
              requests |-> requests + 1, asked |-> TRUE, ok |-> got.ok]

\* The three getters of the defaults: what get_defaults leaves, and the
\* field returned.
ldm_user_get_language(priv, requests, reachable) ==
    LET got == get_defaults(priv, requests, reachable)
    IN  [got |-> got, ret |-> got.priv.language]

ldm_user_get_layout(priv, requests, reachable) ==
    LET got == get_defaults(priv, requests, reachable)
    IN  [got |-> got, ret |-> got.priv.layout]

ldm_user_get_session(priv, requests, reachable) ==
    LET got == get_defaults(priv, requests, reachable)
    IN  [got |-> got, ret |-> got.priv.session]

\* ldm_user_new: g_object_new sets each construction property through
\* ldm_user_set_property, which calls the setter of the property.
ldm_user_set_property(priv, name, real_name, home_directory, image, logged_in) ==
    ldm_user_set_logged_in(
        ldm_user_set_image(
            ldm_user_set_home_directory(
                ldm_user_set_real_name(
                    ldm_user_set_name(priv, name), real_name),
                home_directory),
            image),
        logged_in)

-----------------------------------------------------------------------------
(* user.c: the calls a program makes *)

\* A call that reads one field and changes nothing.
Returned(op, ret) ==
    /\ user.exists
    /\ user_call' = [op |-> op, ret |-> ret, asked |-> FALSE, ok |-> FALSE]
    /\ UNCHANGED <<seatVars, user, named, greeter_requests>>

\* A call to a setter, leaving the private structure `priv`.
Stored(op, priv) ==
    /\ user.exists
    /\ user' = priv
    /\ user_call' = [op |-> op, ret |-> NULL, asked |-> FALSE, ok |-> FALSE]
    /\ UNCHANGED <<seatVars, greeter_requests>>

\* A call to a getter of the defaults, with what it left and returned.
Fetched(op, done) ==
    /\ user.exists
    /\ user.have_defaults \/ greeter_requests < MaxRequests
    /\ user' = done.got.priv
    /\ greeter_requests' = done.got.requests
    /\ user_call' = [op |-> op, ret |-> done.ret, asked |-> done.got.asked,
                     ok |-> done.got.ok]
    /\ UNCHANGED <<seatVars, named>>

call_ldm_user_new(name, real_name, home_directory, image, logged_in) ==
    /\ ~user.exists
    /\ user' = [ldm_user_set_property(user, name, real_name, home_directory,
                                      image, logged_in) EXCEPT !.exists = TRUE]
    /\ named' = [name |-> name, real_name |-> real_name]
    /\ user_call' = [op |-> "ldm_user_new", ret |-> NULL, asked |-> FALSE,
                     ok |-> FALSE]
    /\ UNCHANGED <<seatVars, greeter_requests>>

call_ldm_user_get_name == Returned("ldm_user_get_name", ldm_user_get_name(user))

call_ldm_user_set_name(name) ==
    /\ Stored("ldm_user_set_name", ldm_user_set_name(user, name))
    /\ named' = [named EXCEPT !.name = name]

call_ldm_user_get_real_name ==
    Returned("ldm_user_get_real_name", ldm_user_get_real_name(user))

call_ldm_user_set_real_name(real_name) ==
    /\ Stored("ldm_user_set_real_name",
              ldm_user_set_real_name(user, real_name))
    /\ named' = [named EXCEPT !.real_name = real_name]

call_ldm_user_get_display_name ==
    Returned("ldm_user_get_display_name", ldm_user_get_display_name(user))

call_ldm_user_get_home_directory ==
    Returned("ldm_user_get_home_directory", ldm_user_get_home_directory(user))

call_ldm_user_set_home_directory(home_directory) ==
    /\ Stored("ldm_user_set_home_directory",
              ldm_user_set_home_directory(user, home_directory))
    /\ UNCHANGED named

call_ldm_user_get_image ==
    Returned("ldm_user_get_image", ldm_user_get_image(user))

call_ldm_user_set_image(image) ==
    /\ Stored("ldm_user_set_image", ldm_user_set_image(user, image))
    /\ UNCHANGED named

call_ldm_user_get_logged_in ==
    Returned("ldm_user_get_logged_in", ldm_user_get_logged_in(user))

call_ldm_user_set_logged_in(logged_in) ==
    /\ Stored("ldm_user_set_logged_in",
              ldm_user_set_logged_in(user, logged_in))
    /\ UNCHANGED named

call_ldm_user_get_language(reachable) ==
    Fetched("ldm_user_get_language",
            ldm_user_get_language(user, greeter_requests, reachable))

call_ldm_user_get_layout(reachable) ==
    Fetched("ldm_user_get_layout",
            ldm_user_get_layout(user, greeter_requests, reachable))

call_ldm_user_get_session(reachable) ==
    Fetched("ldm_user_get_session",
            ldm_user_get_session(user, greeter_requests, reachable))

UserNext ==
    \/ \E name \in UserNames, real_name \in RealNames,
          home_directory \in HomeDirectories, image \in Images,
          logged_in \in BOOLEAN :
           call_ldm_user_new(name, real_name, home_directory, image, logged_in)
    \/ call_ldm_user_get_name
    \/ \E name \in UserNames : call_ldm_user_set_name(name)
    \/ call_ldm_user_get_real_name
    \/ \E real_name \in RealNames : call_ldm_user_set_real_name(real_name)
    \/ call_ldm_user_get_display_name
    \/ call_ldm_user_get_home_directory
    \/ \E home_directory \in HomeDirectories :
           call_ldm_user_set_home_directory(home_directory)
    \/ call_ldm_user_get_image
    \/ \E image \in Images : call_ldm_user_set_image(image)
    \/ call_ldm_user_get_logged_in
    \/ \E logged_in \in BOOLEAN : call_ldm_user_set_logged_in(logged_in)
    \/ \E reachable \in BOOLEAN : call_ldm_user_get_language(reachable)
    \/ \E reachable \in BOOLEAN : call_ldm_user_get_layout(reachable)
    \/ \E reachable \in BOOLEAN : call_ldm_user_get_session(reachable)

UserSpec == Init /\ [][UserNext]_vars

-----------------------------------------------------------------------------
(* The seat: properties *)

\* The X servers no display of the seat is backed by.
Unbacked == {h \in DOMAIN xservers :
                \A i \in DOMAIN displays : displays[i].xserver # h}

\* C1: a seat constructed around a session never owns more than one
\* display, and an add_display call made while it owns a display is
\* rejected with AlreadyProvisioned and leaves the number of displays the
\* seat owns as it was.
C1_SecondDisplayRejected ==
    given \in SessionIds
    => /\ Len(displays) <= 1
       /\ (call.op = "add_display" /\ call.owned_before >= 1) =>
              /\ call.result = "AlreadyProvisioned"
              /\ Len(displays) = call.owned_before

\* C2: the first add_display call of a seat constructed around a valid
\* session returns a display, and the X server behind that display has the
\* session's display number, the session's authority and the address that
\* authority holds.
C2_DisplayBacksSession ==
    (call.op = "add_display" /\ given \in ValidSessions /\ Len(xservers) = 1)
    => /\ call.result = "Display"
       /\ displays[Len(displays)].xserver = call.xserver
       /\ xservers[call.xserver].display_number
              = XDMCPSessions[given].display_number
       /\ xservers[call.xserver].authority = XDMCPSessions[given].authority
       /\ xservers[call.xserver].address
              = xauth_address[XDMCPSessions[given].authority]

\* The first add_display call of a seat around session S2 has returned.
C2_Witness ==
    /\ call.op = "add_display"
    /\ call.result = "Display"
    /\ given = "S2"
    /\ Len(xservers) = 1
    /\ xservers[1].display_number = 7

\* C3: no seat holds a null session, and add_display is never run for a
\* seat constructed with a null session.
C3_NullSessionRejected ==
    /\ seat.exists => seat.session # NULL
    /\ call.op = "add_display" => call.session # NULL

\* C4: an add_display call whose session has no authority, or an authority
\* without an address, ends in a ProvisioningError: the seat owns no more
\* displays than before, no X server is left referenced by the call, and
\* the seat is Failed.
C4_ProvisioningErrorSurfaces ==
    (call.op = "add_display" /\ call.session \in SessionIds \ ValidSessions)
    => /\ call.result = "ProvisioningError"
       /\ Len(displays) = call.owned_before
       /\ \A h \in Unbacked : xservers[h].ref_count = 0
       /\ seat_state = "Failed"

\* C5: the seat's session is never null, is the session the seat was
\* constructed with, and has the authority and display number it had then.
C5_SessionUntouched ==
    seat.exists
    => /\ seat.session # NULL
       /\ seat.session = given
       /\ sessions[seat.session].authority = XDMCPSessions[given].authority
       /\ sessions[seat.session].display_number
              = XDMCPSessions[given].display_number

\* C6: every add_display call makes a new X server; the display it returns
\* holds the only reference to that X server, no two displays are backed by
\* the same X server, and an X server behind no display is referenced by
\* nothing.
C6_DisplaySoleOwner ==
    /\ \A i \in DOMAIN displays : xservers[displays[i].xserver].ref_count = 1
    /\ \A i, j \in DOMAIN displays :
           i # j => displays[i].xserver # displays[j].xserver
    /\ \A h \in Unbacked : xservers[h].ref_count = 0
    /\ call.result = "Display" =>
           /\ call.xserver = Len(xservers)
           /\ displays[Len(displays)].xserver = call.xserver

\* add_display has just returned the seat's second display.
C6_Witness ==
    /\ call.result = "Display"
    /\ Len(displays) = 2
    /\ Len(xservers) = 3

\* C7: once the seat was stopped with a display request pending, none of
\* its displays is running.
C7_NoRunningAfterStop ==
    stopped_while_pending =>
        \A i \in DOMAIN displays : displays[i].status # "Running"

\* The display that was pending when the seat was stopped has arrived, and
\* it is stopped.
C7_Witness ==
    /\ stopped_while_pending
    /\ call.result = "Display"
    /\ displays[Len(displays)].status = "Stopped"

-----------------------------------------------------------------------------
(* The user: properties *)

DefaultsGetters ==
    {"ldm_user_get_language", "ldm_user_get_layout", "ldm_user_get_session"}

\* C8: ldm_user_get_display_name returns the real name last set when that
\* is not NULL, and the name last set otherwise.
C8_DisplayNameFallsBack ==
    user_call.op = "ldm_user_get_display_name" =>
        user_call.ret = IF named.real_name # NULL THEN named.real_name
                        ELSE named.name

\* With the real name reset to NULL after construction and the name changed,
\* the display name returned is the new name.
C8_Witness ==
    /\ user_call.op = "ldm_user_get_display_name"
    /\ named = [name |-> "bob", real_name |-> NULL]
    /\ user_call.ret = "bob"

\* C9: while have_defaults is FALSE every getter of the defaults sends one
\* request to the greeter, and have_defaults becomes TRUE exactly when that
\* request succeeds; once have_defaults is TRUE no request is sent again.
C9_DefaultsFetchedOnce ==
    [][/\ user.have_defaults => greeter_requests' = greeter_requests
       /\ (user_call'.op \in DefaultsGetters /\ ~user.have_defaults) =>
              /\ greeter_requests' = greeter_requests + 1
              /\ user'.have_defaults = user_call'.ok]_vars

\* A request failed, a later one succeeded, and the getter that has just
\* returned sent none.
C9_Witness ==
    /\ user_call.op \in DefaultsGetters
    /\ ~user_call.asked
    /\ user.have_defaults
    /\ greeter_requests = 2

\* C10: once have_defaults is TRUE it stays TRUE and the cached language,
\* layout and session never change, whatever is called.
C10_DefaultsKept ==
    [][user.have_defaults =>
           /\ user'.have_defaults
           /\ user'.language = user.language
           /\ user'.layout = user.layout
           /\ user'.session = user.session]_vars

\* The user was renamed to bob after alice's defaults were fetched, and
\* ldm_user_get_language has just returned alice's language.
C10_Witness ==
    /\ user.have_defaults
    /\ user.name = "bob"
    /\ user_call.op = "ldm_user_get_language"
    /\ user_call.ret = GreeterDefaults["alice"].language

====
